---- MODULE Spec2Model ----
(***************************************************************************)
(* Model of the retrieval pipeline of aldringstori/knowledge:              *)
(*   - the vector store (modules/chat/qdrant_db.py QdrantDB, and the two   *)
(*     sqlite clients of improved_ingest.py and final_ingest.py),          *)
(*   - the Streamlit ingestion and query path (modules/chat/chat_ui.py),   *)
(*   - the embedding retry loop (robust_batch_ingest.py, embeddings.py),   *)
(*   - the batch orchestrator (improved_ingest.py),                        *)
(*   - the context formatting (modules/chat/context_processor.py) and the  *)
(*     conversation history (modules/chat/chat_history.py).                *)
(*                                                                         *)
(* Conventions.  A vector is a record [dim, tag]: dim is len(vector), tag  *)
(* stands for its direction; Similarity gives the cosine score of two      *)
(* directions in hundredths (0.7 is 70).  Times are in milliseconds.       *)
(* `last` is the record of the most recent call and what it returned.      *)
(***************************************************************************)
EXTENDS Integers, Sequences, FiniteSets, TLC

VARIABLES
    impl,          \* which store class this behaviour exercises
    client,        \* QdrantDB.client: "ok", or "none" after a failed init
    coll,          \* the collection / table on disk: "ready" or "missing"
    points,        \* the collection / points table: id -> point
    existing_ids,  \* SpecializedQdrantClient.existing_ids
    last,          \* the most recent call: [op, ..., ret]
    hashSeed,      \* the running interpreter's str-hash salt
    ingest,        \* ChatUI.ingest_documents: position and counters
    emb,           \* the embedding retry loop: position, logs, result
    run,           \* run_improved_ingest: position, lists, results
    history        \* a ChatHistory: max_history, messages, chat_contexts

vars == <<impl, client, coll, points, existing_ids, last, hashSeed, ingest, emb,
          run, history>>

----------------------------------------------------------------------------
(* Bounds of the model *)

MaxId == 2          \* point ids a caller passes: 1..MaxId
MaxFresh == 1       \* ids _generate_unique_id can still draw
MaxLimit == 2       \* search limits tried: 1..MaxLimit

(* Program constants *)

CollectionSize == 384   \* VectorParams(size=384)
ModelSize == 768        \* nomic-embed-text dimension checked by the embedder
GenBase == 100          \* generated ids are timestamps: above every caller id

Ids == 1..MaxId
FreshIds == (GenBase + 1)..(GenBase + MaxFresh)
Tags == 1..2
Dims == {CollectionSize, ModelSize}
Texts == {"t1", "t2"}
Sources == {"a.txt"}
Vectors == [dim : Dims, tag : Tags]
Payloads == [text : Texts, source : Sources]
Thresholds == {0, 70}

None == [dim |-> 0, tag |-> 0]      \* Python None / empty embedding

Count == Cardinality(DOMAIN points)

Idle == [pc |-> "idle"]

\* the ChatHistory of a behaviour that makes no use of one
NoHistory == [max_history |-> 0, messages |-> <<>>, chat_contexts |-> <<>>]

\* cosine similarity of two directions, in hundredths
Similarity(q, v) ==
    LET d == IF q.tag >= v.tag THEN q.tag - v.tag ELSE v.tag - q.tag
    IN  100 - 40 * d

\* client.upsert / INSERT OR REPLACE: the point stored under id, others kept
Upsert(pts, id, p) ==
    [i \in DOMAIN pts \cup {id} |-> IF i = id THEN p ELSE pts[i]]

Empty == [i \in {} |-> None]

MkPoint(id, text, embedding, source) ==
    [id |-> id, vector |-> embedding, payload |-> [text |-> text, source |-> source]]

----------------------------------------------------------------------------
(* The qdrant_client library calls QdrantDB makes *)

\* recreate_collection: delete the collection, create it empty
RecreateCollection(pts) == Empty

\* the hit of one stored point for a query
Hit(pts, i, vector) ==
    [id |-> i, score |-> Similarity(vector, pts[i].vector), payload |-> pts[i].payload]

\* the best remaining hit: highest score, lowest id among equals
Best(hits) ==
    CHOOSE h \in hits :
        \A g \in hits : g.score < h.score \/ (g.score = h.score /\ g.id >= h.id)

RECURSIVE Ranked(_)
Ranked(hits) ==
    IF hits = {} THEN <<>>
    ELSE LET b == Best(hits) IN <<b>> \o Ranked(hits \ {b})

Take(seq, n) == SubSeq(seq, 1, IF Len(seq) < n THEN Len(seq) ELSE n)

\* mutant: score_threshold is not passed on to client.search
PassingAll(pts, vector, score_threshold) ==
    {Hit(pts, i, vector) : i \in DOMAIN pts}

\* the hits the threshold passed to client.search lets through
Passing(pts, vector, score_threshold) ==
    {h \in {Hit(pts, i, vector) : i \in DOMAIN pts} : h.score >= score_threshold}

\* client.search(query_vector, limit, score_threshold)
ClientSearch(pts, vector, limit, score_threshold) ==
    Take(Ranked(Passing(pts, vector, score_threshold)), limit)

----------------------------------------------------------------------------
(* QdrantDB, modules/chat/qdrant_db.py.  Every method body is one try/except:
   `raised` says whether an exception leaves the method. *)

\* mutant: the dimension is not checked
DimensionUnchecked(vector) == TRUE

\* the dimension check of store_embedding and of search
DimensionMatches(vector) == vector.dim = CollectionSize

\* [{'score': hit.score, 'payload': hit.payload} for hit in results]
AsDicts(hits) == [k \in 1..Len(hits) |-> [score |-> hits[k].score, payload |-> hits[k].payload]]

Failed(pts) == [ret |-> FALSE, raised |-> FALSE, pts |-> pts]

\* mutant: store_embedding without its try/except
QStoreUncaught(text, embedding, source, point_id, io) ==
    IF client # "ok" THEN Failed(points)
    ELSE IF coll # "ready" THEN [ret |-> FALSE, raised |-> TRUE, pts |-> points]
    ELSE IF ~DimensionMatches(embedding) THEN Failed(points)
    ELSE IF ~io THEN [ret |-> FALSE, raised |-> TRUE, pts |-> points]
    ELSE [ret |-> TRUE, raised |-> FALSE,
          pts |-> Upsert(points, point_id, MkPoint(point_id, text, embedding, source))]

\* what QdrantDB.store_embedding returns and leaves stored; io is whether the
\* library calls went through
QStoreResult(text, embedding, source, point_id, io) ==
    IF client # "ok" THEN Failed(points)
    ELSE IF coll # "ready" THEN Failed(points)
    ELSE IF ~DimensionMatches(embedding) THEN Failed(points)
    ELSE IF ~io THEN Failed(points)
    ELSE [ret |-> TRUE, raised |-> FALSE,
          pts |-> Upsert(points, point_id, MkPoint(point_id, text, embedding, source))]

\* return [] where nothing matched; `error` tells the branches that log an
\* error (they return [] as well) from the ones that do not
NoHits == [ret |-> <<>>, raised |-> FALSE, error |-> FALSE]
Errored == [ret |-> <<>>, raised |-> FALSE, error |-> TRUE]

\* mutant: search without its try/except: a missing collection raises
QSearchUncaught(vector, limit, score_threshold, io) ==
    IF client # "ok" THEN Errored
    ELSE IF coll # "ready" THEN [ret |-> <<>>, raised |-> TRUE, error |-> TRUE]
    ELSE IF ~DimensionMatches(vector) THEN Errored
    ELSE IF Count = 0 THEN NoHits
    ELSE IF ~io THEN [ret |-> <<>>, raised |-> TRUE, error |-> TRUE]
    ELSE [ret |-> AsDicts(ClientSearch(points, vector, limit, score_threshold)),
          raised |-> FALSE, error |-> FALSE]

\* what QdrantDB.search returns
QSearchResult(vector, limit, score_threshold, io) ==
    IF client # "ok" THEN Errored
    ELSE IF coll # "ready" THEN Errored
    ELSE IF ~DimensionMatches(vector) THEN Errored
    ELSE IF Count = 0 THEN NoHits
    ELSE IF ~io THEN Errored
    ELSE [ret |-> AsDicts(ClientSearch(points, vector, limit, score_threshold)),
          raised |-> FALSE, error |-> FALSE]

\* QdrantDB.__init__ -> _initialize_client.  how = "ok": every call went
\* through; "early": an exception before recreate_collection; "late": an
\* exception after the collection was deleted.
InitializeClient(how) ==
    /\ client' = IF how = "ok" THEN "ok" ELSE "none"
    /\ points' = IF how = "early" THEN points ELSE RecreateCollection(points)
    /\ coll' = IF how = "ok" THEN "ready" ELSE IF how = "late" THEN "missing" ELSE coll

\* QdrantDB.clear_collection: count, recreate_collection, count
ClearResult(how) ==
    IF client # "ok" \/ coll # "ready" \/ how = "early"
    THEN [pts |-> points, coll |-> coll, raised |-> FALSE]
    ELSE [pts |-> RecreateCollection(points),
          coll |-> IF how = "ok" THEN "ready" ELSE "missing", raised |-> FALSE]

\* QdrantDB.get_collection_stats
QStatsResult(io) ==
    IF client # "ok" THEN [error |-> "Client not initialized", raised |-> FALSE]
    ELSE IF coll # "ready" \/ ~io THEN [error |-> "exception", raised |-> FALSE]
    ELSE [error |-> "", count |-> Count, vector_size |-> CollectionSize, raised |-> FALSE]

Hows == {"ok", "early", "late"}

----------------------------------------------------------------------------
(* CustomQdrantClient, improved_ingest.py: the points table read and written
   through sqlite, a point kept as the JSON of {id, payload, vector} *)

\* __init__ -> _check_database: the table is created when it is missing
CheckDatabase(io) ==
    /\ coll' = IF io THEN "ready" ELSE coll
    /\ UNCHANGED <<client, points>>

\* mutant: a point takes the place of the points that hold the same text
ReplaceSameText(pts, id, p) ==
    LET others == {i \in DOMAIN pts : pts[i].payload.text # p.payload.text}
    IN  [i \in others \cup {id} |-> IF i = id THEN p ELSE pts[i]]

\* UPDATE points SET point = ? WHERE id = ?   /   INSERT INTO points
UpdateOrInsert(pts, id, p) ==
    IF id \in DOMAIN pts THEN [pts EXCEPT ![id] = p] ELSE Upsert(pts, id, p)

CStoreResult(text, embedding, source, point_id, io) ==
    IF coll # "ready" \/ ~io THEN Failed(points)
    ELSE [ret |-> TRUE, raised |-> FALSE,
          pts |-> UpdateOrInsert(points, point_id, MkPoint(point_id, text, embedding, source))]

\* CustomQdrantClient.get_collection_stats: SELECT COUNT(*) FROM points
CStatsResult(io) ==
    IF coll # "ready" \/ ~io THEN [points_count |-> 0, status |-> "red"]
    ELSE [points_count |-> Count,
          status |-> IF Count >= 0 THEN "green" ELSE "yellow"]

\* AdaptiveQdrantClient.get_collection_stats of adaptive_ingest.py, on the
\* same table; has_table is 'points' in self.schema['tables']
AStatsResult(io, has_table) ==
    IF coll # "ready" \/ ~io THEN [points_count |-> 0, status |-> "red"]
    ELSE IF ~has_table THEN [points_count |-> 0, status |-> "yellow"]
    ELSE [points_count |-> Count,
          status |-> IF Count >= 0 THEN "green" ELSE "yellow"]

----------------------------------------------------------------------------
(* SpecializedQdrantClient, final_ingest.py: ids are TEXT; an id stands for
   its decimal string, 0 for a point_id of None *)

\* __init__ -> _load_existing_ids
LoadExistingIds(io) ==
    /\ existing_ids' = IF io /\ coll = "ready" THEN DOMAIN points ELSE {}
    /\ UNCHANGED <<client, coll, points>>

\* the ids _generate_unique_id can return: a timestamp not used before
UniqueIds(used) == FreshIds \ used

\* the id store_embedding writes under
IdStr(point_id, fresh) ==
    IF point_id = 0 \/ point_id \in existing_ids THEN fresh ELSE point_id

SStoreResult(text, embedding, source, point_id, fresh, io) ==
    LET id_str == IdStr(point_id, fresh) IN
    IF coll # "ready" \/ ~io
    THEN [ret |-> FALSE, raised |-> FALSE, pts |-> points, ids |-> existing_ids]
    ELSE [ret |-> TRUE, raised |-> FALSE,
          pts |-> Upsert(points, id_str, MkPoint(id_str, text, embedding, source)),
          ids |-> existing_ids \cup {id_str}]

\* SpecializedQdrantClient.get_collection_stats: every stored point is NOT NULL
SStatsResult(io) ==
    IF coll # "ready" \/ ~io
    THEN [total_points |-> 0, valid_points |-> 0, status |-> "red"]
    ELSE [total_points |-> Count, valid_points |-> Count,
          status |-> IF Count > 0 THEN "green" ELSE "yellow"]

----------------------------------------------------------------------------
(* The query path: ChatUI.generate_response (chat_ui.py) and
   ContextProcessor.process_search_results (context_processor.py) *)

RelevanceThreshold == 70    \* score_threshold=0.7, relevance_threshold = 0.7
ResponseLimit == 5          \* limit=5
ContextLimit == 3           \* search_results[:3]

\* search_results.sort(key=score, reverse=True): a stable sort
RECURSIVE SortByScore(_)
SortByScore(results) ==
    IF results = <<>> THEN <<>>
    ELSE LET k == CHOOSE k \in 1..Len(results) :
                    \A j \in 1..Len(results) :
                        results[j].score < results[k].score
                        \/ (results[j].score = results[k].score /\ j >= k)
         IN  <<results[k]>> \o SortByScore(SubSeq(results, 1, k - 1)
                                            \o SubSeq(results, k + 1, Len(results)))

\* ContextProcessor.process_search_results: the results kept as context
RECURSIVE ProcessSearchResults(_)
ProcessSearchResults(results) ==
    IF results = <<>> THEN <<>>
    ELSE (IF results[1].score < RelevanceThreshold THEN <<>> ELSE <<results[1]>>)
         \o ProcessSearchResults(Tail(results))

\* generate_response from db.search on: the search, the context, the answer
AfterEmbedding(prompt_embedding, io, gen) ==
    LET r == QSearchResult(prompt_embedding, ResponseLimit, RelevanceThreshold, io)
        search_results == r.ret
    IN  IF search_results = <<>>
        THEN [ret |-> "No relevant information found in the documents.",
              searched |-> TRUE, search_error |-> r.error,
              context |-> <<>>, generated |-> FALSE]
        ELSE [ret |-> gen, searched |-> TRUE, search_error |-> r.error,
              context |-> Take(SortByScore(search_results), ContextLimit),
              generated |-> TRUE]

\* mutant: the failed embedding is passed on to the search
GenerateResponseUnguarded(prompt_embedding, io, gen) ==
    AfterEmbedding(prompt_embedding, io, gen)

\* ChatUI.generate_response.  prompt_embedding is what get_embeddings gave
\* (None when it failed), io whether the search went through, gen what the
\* model manager returned.
GenerateResponseResult(prompt_embedding, io, gen) ==
    IF prompt_embedding = None
    THEN [ret |-> "Error: Could not process your question", searched |-> FALSE,
          search_error |-> FALSE, context |-> <<>>, generated |-> FALSE]
    ELSE AfterEmbedding(prompt_embedding, io, gen)

\* what ModelManager.generate_response can hand back
Generations == {"answer", "Error: Could not connect to Ollama server."}

----------------------------------------------------------------------------
(* The store's operations called directly, with every argument a caller can
   pass *)

Impls == {"QdrantDB", "Custom", "Specialized"}

StoreCall(point_id, embedding, text, source, r) ==
    [op |-> "store", id |-> point_id, vector |-> embedding,
     payload |-> [text |-> text, source |-> source], ret |-> r.ret, raised |-> r.raised]

Open ==
    /\ \E how \in Hows :
        \/ /\ impl = "QdrantDB"
           /\ InitializeClient(how)
           /\ UNCHANGED existing_ids
        \/ /\ impl = "Custom"
           /\ CheckDatabase(how = "ok")
           /\ UNCHANGED existing_ids
        \/ /\ impl = "Specialized"
           /\ LoadExistingIds(how = "ok")
    /\ last' = [op |-> "open"]
    /\ UNCHANGED <<history, impl, hashSeed, ingest, emb, run>>

StoreEmbedding ==
    /\ \E text \in Texts, embedding \in Vectors, source \in Sources, io \in BOOLEAN :
        \/ /\ impl = "QdrantDB"
           /\ \E point_id \in Ids :
                LET r == QStoreResult(text, embedding, source, point_id, io) IN
                /\ points' = r.pts
                /\ last' = StoreCall(point_id, embedding, text, source, r)
           /\ UNCHANGED existing_ids
        \/ /\ impl = "Custom"
           /\ \E point_id \in Ids :
                LET r == CStoreResult(text, embedding, source, point_id, io) IN
                /\ points' = r.pts
                /\ last' = StoreCall(point_id, embedding, text, source, r)
           /\ UNCHANGED existing_ids
        \/ /\ impl = "Specialized"
           /\ \E point_id \in {0, 1} :
              \E fresh \in (IF point_id = 0 \/ point_id \in existing_ids
                            THEN UniqueIds(existing_ids \cup DOMAIN points)
                            ELSE {point_id}) :
                LET r == SStoreResult(text, embedding, source, point_id, fresh, io) IN
                /\ points' = r.pts
                /\ existing_ids' = r.ids
                /\ last' = StoreCall(point_id, embedding, text, source, r)
    /\ UNCHANGED <<history, impl, client, coll, hashSeed, ingest, emb, run>>

Search ==
    /\ impl = "QdrantDB"
    /\ \E vector \in Vectors, limit \in 1..MaxLimit, score_threshold \in Thresholds,
          io \in BOOLEAN :
        LET r == QSearchResult(vector, limit, score_threshold, io) IN
        last' = [op |-> "search", after_clear |-> (last.op = "clear"), vector |-> vector, limit |-> limit,
                 score_threshold |-> score_threshold, ret |-> r.ret, raised |-> r.raised]
    /\ UNCHANGED <<history, impl, client, coll, points, existing_ids, hashSeed, ingest, emb, run>>

ClearCollection ==
    /\ impl = "QdrantDB"
    /\ \E how \in Hows :
        LET r == ClearResult(how) IN
        /\ points' = r.pts
        /\ coll' = r.coll
        /\ last' = [op |-> "clear", raised |-> r.raised]
    /\ UNCHANGED <<history, impl, client, existing_ids, hashSeed, ingest, emb, run>>

GetCollectionStats ==
    /\ impl = "QdrantDB"
    /\ \E io \in BOOLEAN :
        last' = [op |-> "stats", ret |-> QStatsResult(io)]
    /\ UNCHANGED <<history, impl, client, coll, points, existing_ids, hashSeed, ingest, emb, run>>

\* the classes that read the sqlite table of a store
StatsClasses ==
    IF impl = "Custom" THEN {"CustomQdrantClient", "AdaptiveQdrantClient"}
    ELSE {"SpecializedQdrantClient"}

\* get_collection_stats of the sqlite clients: the status it reports
GetStatus ==
    /\ impl \in {"Custom", "Specialized"}
    /\ \E io \in BOOLEAN, class \in StatsClasses :
       \E has_table \in (IF class = "AdaptiveQdrantClient" /\ Count = 0
                         THEN BOOLEAN ELSE {TRUE}) :
        LET status == CASE class = "CustomQdrantClient" -> CStatsResult(io).status
                        [] class = "AdaptiveQdrantClient" ->
                                AStatsResult(io, has_table).status
                        [] OTHER -> SStatsResult(io).status
        IN  last' = [op |-> "status", class |-> class,
                     readable |-> (coll = "ready" /\ io),
                     has_table |-> has_table, count |-> Count,
                     status |-> status]
    /\ UNCHANGED <<history, impl, client, coll, points, existing_ids, hashSeed, ingest, emb, run>>

GenerateResponse ==
    /\ impl = "QdrantDB"
    /\ \E prompt_embedding \in {v \in Vectors : v.dim = CollectionSize} \cup {None},
          io \in BOOLEAN, gen \in Generations :
        LET r == GenerateResponseResult(prompt_embedding, io, gen) IN
        last' = [op |-> "respond", vector |-> prompt_embedding,
                 ret |-> r.ret, searched |-> r.searched,
                 search_error |-> r.search_error, context |-> r.context,
                 generated |-> r.generated]
    /\ UNCHANGED <<history, impl, client, coll, points, existing_ids, hashSeed, ingest, emb, run>>

\* process_search_results applied to what the last search returned
ProcessResults ==
    /\ last.op = "search"
    /\ last' = [op |-> "context", results |-> last.ret,
                context |-> ProcessSearchResults(last.ret)]
    /\ UNCHANGED <<history, impl, client, coll, points, existing_ids, hashSeed, ingest, emb, run>>

InitStore ==
    /\ impl \in Impls
    /\ client = "ok"
    /\ coll = "ready"
    /\ points = Empty
    /\ existing_ids = {}
    /\ last = [op |-> "open"]
    /\ hashSeed = 1
    /\ ingest = Idle
    /\ emb = Idle
    /\ run = Idle
    /\ history = NoHistory

NextStore ==
    \/ Open
    \/ StoreEmbedding
    \/ Search
    \/ ClearCollection
    \/ GetCollectionStats
    \/ GetStatus
    \/ GenerateResponse
    \/ ProcessResults

SpecStore == InitStore /\ [][NextStore]_vars

----------------------------------------------------------------------------
(* ChatUI.ingest_documents, modules/chat/chat_ui.py: the candidate files are
   1..MaxFiles in glob order; a text is known by its words' positions *)

MaxFiles == 2       \* transcript files found by glob
MaxSeeds == 2       \* str-hash salts an interpreter can start with

ChunkSize == 300
Overlap == 50

Files == 1..MaxFiles
Seeds == 1..MaxSeeds

\* len(text.split()) of file f
WordCount(f) == 130 * f

\* range(0, len(words), chunk_size - overlap)
ChunkStarts(n, chunk_size, overlap) ==
    {i \in 0..(n - 1) : i % (chunk_size - overlap) = 0}

NumChunks(f) == Cardinality(ChunkStarts(WordCount(f), ChunkSize, Overlap))

\* chunks[i] of file f: ' '.join(words[start:start + chunk_size])
ChunkText(f, i) ==
    LET start == i * (ChunkSize - Overlap)
        stop == IF start + ChunkSize < WordCount(f) THEN start + ChunkSize
                ELSE WordCount(f)
    IN  [file |-> f, from |-> start, to |-> stop]

TotalChunks == LET RECURSIVE Sum(_)
                   Sum(f) == IF f = 0 THEN 0 ELSE NumChunks(f) + Sum(f - 1)
               IN  Sum(MaxFiles)

\* hash(f"{file_path}_{i}"): fixed within one interpreter, salted per process
PointId(seed, f, i) == seed * 1000 + f * 10 + i

\* get_embeddings(chunk_text) when the model answers: 384 dimensions
Embedding(text) == [dim |-> CollectionSize, tag |-> ((text.file + text.from) % 2) + 1]

\* count.count of a stats dict, -1 when the dict is {"error": ...}
StatsCount(stats) == IF stats.error = "" THEN stats.count ELSE -1

\* ChatUI.__init__ -> QdrantDB(path), on every Streamlit rerun (restart: in
\* a new interpreter, with a new hash salt)
NewChatUI ==
    /\ ingest.pc # "run"
    /\ \E how \in Hows : InitializeClient(how)
    /\ \E seed \in Seeds : hashSeed' = seed
    /\ last' = [op |-> "open"]
    /\ UNCHANGED <<history, impl, existing_ids, ingest, emb, run>>

\* the "Clear Collection" button; the report of an earlier run is void
ClearButton ==
    /\ ingest.pc # "run"
    /\ \E how \in Hows :
        LET r == ClearResult(how) IN
        /\ points' = r.pts
        /\ coll' = r.coll
        /\ last' = [op |-> "clear", raised |-> r.raised]
    /\ ingest' = Idle
    /\ UNCHANGED <<history, impl, client, existing_ids, hashSeed, emb, run>>

\* ingest_documents up to the file loop: before_stats, the counters at 0;
\* after_full records that the run before this one stored every chunk and
\* that the collection has not been cleared by the user since
BeginIngest ==
    /\ ingest.pc # "run"
    /\ \E io \in BOOLEAN :
        ingest' = [pc |-> "run", file |-> 1, chunk |-> 0,
                   after_full |-> (ingest.pc = "done"
                                   /\ ingest.chunk_count = TotalChunks),
                   before_count |-> StatsCount(QStatsResult(io)),
                   success_count |-> 0, failed_count |-> 0, chunk_count |-> 0,
                   chunk_success |-> 0, chunk_failed |-> 0]
    /\ last' = [op |-> "begin"]
    /\ UNCHANGED <<history, impl, client, coll, points, existing_ids, hashSeed, emb, run>>

\* the end of the chunk loop of one file, and of the file loop
AfterChunk(ing) ==
    IF ing.chunk + 1 < NumChunks(ing.file)
    THEN [ing EXCEPT !.chunk = ing.chunk + 1]
    ELSE [ing EXCEPT
            !.chunk_count = ing.chunk_count + ing.chunk_success,
            !.success_count = IF ing.chunk_failed = 0 THEN @ + 1 ELSE @,
            !.failed_count = IF ing.chunk_failed = 0 THEN @ ELSE @ + 1,
            !.chunk_success = 0,
            !.chunk_failed = 0,
            !.chunk = 0,
            !.file = IF ing.file < MaxFiles THEN ing.file + 1 ELSE ing.file,
            !.pc = IF ing.file < MaxFiles THEN "run" ELSE "done"]

\* one pass of the chunk loop: get_embeddings, then store_embedding
IngestChunk ==
    /\ ingest.pc = "run"
    /\ LET f == ingest.file
           i == ingest.chunk
           text == ChunkText(f, i)
       IN \E embedded \in BOOLEAN, io \in BOOLEAN :
            IF ~embedded
            THEN /\ ingest' = AfterChunk([ingest EXCEPT !.chunk_failed = @ + 1])
                 /\ last' = [op |-> "embed_failed"]
                 /\ UNCHANGED points
            ELSE LET point_id == PointId(hashSeed, f, i)
                     r == QStoreResult(text, Embedding(text), f, point_id, io)
                 IN  /\ points' = r.pts
                     /\ last' = StoreCall(point_id, Embedding(text), text, f, r)
                     /\ ingest' = AfterChunk(
                            IF r.ret THEN [ingest EXCEPT !.chunk_success = @ + 1]
                            ELSE [ingest EXCEPT !.chunk_failed = @ + 1])
    /\ UNCHANGED <<history, impl, client, coll, existing_ids, hashSeed, emb, run>>

\* the file cannot be read: except Exception, failed_count += 1, continue
IngestFileError ==
    /\ ingest.pc = "run"
    /\ ingest.chunk = 0
    /\ ingest' = [ingest EXCEPT
                    !.failed_count = @ + 1,
                    !.file = IF ingest.file < MaxFiles THEN @ + 1 ELSE @,
                    !.pc = IF ingest.file < MaxFiles THEN "run" ELSE "done"]
    /\ last' = [op |-> "file_error"]
    /\ UNCHANGED <<history, impl, client, coll, points, existing_ids, hashSeed, emb, run>>

InitChat ==
    /\ impl = "QdrantDB"
    /\ client = "ok"
    /\ coll = "ready"
    /\ points = Empty
    /\ existing_ids = {}
    /\ last = [op |-> "open"]
    /\ hashSeed \in Seeds
    /\ ingest = Idle
    /\ emb = Idle
    /\ run = Idle
    /\ history = NoHistory

NextChat ==
    \/ NewChatUI
    \/ ClearButton
    \/ BeginIngest
    \/ IngestChunk
    \/ IngestFileError

SpecChat == InitChat /\ [][NextChat]_vars

\* C1: ingesting the same files twice in succession adds no point: in a run
\* that follows a run which stored every chunk, every successful store
\* overwrites a point that is already in the collection under the same id.
C1_SecondRunAddsNone ==
    [][(ingest.pc = "run" /\ ingest.after_full
        /\ last'.op = "store" /\ last'.ret = TRUE)
       => (/\ last'.id \in DOMAIN points
           /\ Cardinality(DOMAIN points') = Cardinality(DOMAIN points))]_vars

----------------------------------------------------------------------------
(* The embedding request loops: ultra_robust_embedding of
   robust_batch_ingest.py and generate_embedding of modules/embeddings.py.
   Durations are in milliseconds; backoff_factor 1.5 is BackoffNum/BackoffDen
   and jitter 0.2 is 1/JitterDen. *)

MaxRetries == 5             \* ultra_robust_embedding: max_retries
BaseTimeout == 90000        \* ultra_robust_embedding: base_timeout, 90 s
Retries == 3                \* generate_embedding: retries
Timeout == 60000            \* generate_embedding: timeout, 60 s
BackoffNum == 3
BackoffDen == 2
JitterDen == 5
UltraMaxTextLength == 5000
MaxTextLength == 8000
TimeoutSleepFactor == 5

Variants == {"ultra_robust_embedding", "generate_embedding"}
TextLengths == {100, 6000, 9000}
Outcomes == {"timeout", "error", "empty", "short", "ok"}

\* range(max_retries) / range(retries)
AttemptLimit(variant) ==
    IF variant = "ultra_robust_embedding" THEN MaxRetries ELSE Retries

\* mutant: the text is sent as it came
Untruncated(variant, length) == length

\* text[:MAX_TEXT_LENGTH] when len(text) > MAX_TEXT_LENGTH; a text is
\* represented by its length, and a slice text[:k] by the length of the prefix
Truncated(variant, length) ==
    LET max == IF variant = "ultra_robust_embedding" THEN UltraMaxTextLength
               ELSE MaxTextLength
    IN  IF length > max THEN max ELSE length

\* x * backoff_factor ** attempt, to the millisecond
RECURSIVE Backoff(_, _)
Backoff(x, attempt) ==
    IF attempt = 0 THEN x
    ELSE (Backoff(x, attempt - 1) * BackoffNum) \div BackoffDen

\* mutant: the timeout is not scaled by the attempt
SameTimeout(variant, attempt) ==
    IF variant = "ultra_robust_embedding" THEN BaseTimeout ELSE Timeout

\* current_timeout of the attempt; generate_embedding passes timeout as is
CurrentTimeout(variant, attempt) ==
    IF variant = "ultra_robust_embedding" THEN Backoff(BaseTimeout, attempt)
    ELSE Timeout

\* random.uniform(0, jitter * current_timeout): the two ends of the range
JitterAmounts(variant, current_timeout) ==
    IF variant = "ultra_robust_embedding"
    THEN {0, current_timeout \div JitterDen}
    ELSE {0}

\* response.json().get("embedding") of a 200 response
ResponseEmbedding(outcome, tag) ==
    CASE outcome = "ok" -> [dim |-> ModelSize, tag |-> tag]
      [] outcome = "short" -> [dim |-> CollectionSize, tag |-> tag]
      [] OTHER -> None

\* mutant: the length of the vector is not looked at
AcceptedAnyLength(outcome, embedding) ==
    outcome \in {"ok", "short", "empty"} /\ embedding.dim # 0

\* the request succeeded, `embedding` is truthy and len(embedding) == 768
Accepted(outcome, embedding) ==
    /\ outcome \in {"ok", "short", "empty"}
    /\ embedding.dim # 0
    /\ embedding.dim = ModelSize

\* mutant: the loop runs once more than max_retries
ExhaustedLate(variant, attempt) == attempt >= AttemptLimit(variant)

\* the attempt was the last of range(max_retries)
Exhausted(variant, attempt) == attempt + 1 >= AttemptLimit(variant)

\* time.sleep calls of a failed attempt, as a sequence of durations
SleepsAfter(variant, attempt, outcome) ==
    LET ultra == variant = "ultra_robust_embedding"
        more == attempt < AttemptLimit(variant) - 1
    IN  CASE outcome \in {"empty", "short"} ->
                IF ultra \/ more THEN <<Backoff(1000, attempt)>> ELSE <<>>
          [] outcome = "timeout" ->
                IF ~more THEN <<>>
                ELSE IF ultra THEN <<Backoff(1000, attempt) * TimeoutSleepFactor>>
                ELSE <<Backoff(1000, attempt)>>
          [] OTHER ->
                IF more THEN <<Backoff(1000, attempt)>> ELSE <<>>

\* the call, up to the loop
BeginEmbed ==
    /\ emb.pc # "run"
    /\ \E variant \in Variants, length \in TextLengths :
        emb' = [pc |-> "run", variant |-> variant, text |-> length,
                sent |-> Truncated(variant, length),
                attempt |-> 0, timeouts |-> <<>>, outcomes |-> <<>>,
                prompts |-> <<>>, sleeps |-> <<>>, result |-> None]
    /\ UNCHANGED <<history, impl, client, coll, points, existing_ids, last, hashSeed,
                   ingest, run>>

\* one pass of the loop: a request, and what follows its outcome
Attempt ==
    /\ emb.pc = "run"
    /\ LET variant == emb.variant
           current_timeout == CurrentTimeout(variant, emb.attempt)
       IN \E jitter_amount \in JitterAmounts(variant, current_timeout),
             outcome \in Outcomes, tag \in Tags :
            LET adjusted_timeout == current_timeout + jitter_amount
                embedding == ResponseEmbedding(outcome, tag)
                requested == [emb EXCEPT
                                !.timeouts = Append(@, adjusted_timeout),
                                !.prompts = Append(@, emb.sent),
                                !.outcomes = Append(@, outcome)]
            IN  IF Accepted(outcome, embedding)
                THEN emb' = [requested EXCEPT !.pc = "done",
                                              !.result = embedding]
                ELSE LET slept == [requested EXCEPT !.sleeps =
                            @ \o SleepsAfter(variant, emb.attempt, outcome)]
                     IN  IF Exhausted(variant, emb.attempt)
                         THEN emb' = [slept EXCEPT !.pc = "done"]
                         ELSE emb' = [slept EXCEPT !.attempt = @ + 1]
    /\ UNCHANGED <<history, impl, client, coll, points, existing_ids, last, hashSeed,
                   ingest, run>>

InitEmbed ==
    /\ impl = "QdrantDB"
    /\ client = "ok"
    /\ coll = "ready"
    /\ points = Empty
    /\ existing_ids = {}
    /\ last = [op |-> "open"]
    /\ hashSeed = 1
    /\ ingest = Idle
    /\ emb = Idle
    /\ run = Idle
    /\ history = NoHistory

NextEmbed ==
    \/ BeginEmbed
    \/ Attempt

SpecEmbed == InitEmbed /\ [][NextEmbed]_vars

FourTimeouts == <<"timeout", "timeout", "timeout", "timeout">>

\* C5: when the request of ultra_robust_embedding times out on 4 attempts in
\* a row and succeeds on the 5th, the call returns one vector, 4 retries are
\* recorded (4 waits, 5 requests), and each attempt's timeout is strictly
\* greater than the timeout of the attempt before it.
C5_RetryPolicy ==
    (/\ emb.pc = "done"
     /\ emb.variant = "ultra_robust_embedding"
     /\ emb.outcomes = FourTimeouts \o <<"ok">>)
    => /\ emb.result # None
       /\ emb.result.dim = ModelSize
       /\ Len(emb.timeouts) = 5
       /\ Len(emb.sleeps) = 4
       /\ \A k \in 1..4 : emb.timeouts[k + 1] > emb.timeouts[k]

C5_Witness ==
    /\ emb.pc = "done"
    /\ emb.variant = "ultra_robust_embedding"
    /\ emb.outcomes = FourTimeouts \o <<"ok">>
    /\ emb.result.dim = ModelSize
    /\ emb.timeouts[1] = BaseTimeout + BaseTimeout \div JitterDen
    /\ emb.timeouts[2] = Backoff(BaseTimeout, 1)

ZeroVectors == {[dim |-> d, tag |-> 0] : d \in Dims}

\* C9: a call makes at most max_retries requests; when every attempt failed
\* (timeout, HTTP error, empty response or wrong dimension) the call has made
\* exactly max_retries requests and returns None, never a placeholder vector.
C9_BoundedRetries ==
    emb.pc # "idle" =>
        /\ Len(emb.outcomes) <= AttemptLimit(emb.variant)
        /\ emb.pc = "run" => emb.attempt < AttemptLimit(emb.variant)
        /\ emb.result \notin ZeroVectors
        /\ (emb.pc = "done" /\ \A k \in DOMAIN emb.outcomes : emb.outcomes[k] # "ok")
            => (emb.result = None
                /\ Len(emb.outcomes) = AttemptLimit(emb.variant))

C9_Witness ==
    /\ emb.pc = "done"
    /\ emb.result = None
    /\ Len(emb.outcomes) = AttemptLimit(emb.variant)
    /\ {emb.outcomes[k] : k \in DOMAIN emb.outcomes}
        = {"timeout", "error", "empty", "short"}

\* C10: a vector returned by a call has the model's dimension, and a response
\* of another length is a failed attempt: the call goes on to the next
\* attempt, or returns None when it was the last.
C10_ExpectedDimension ==
    emb.pc # "idle" =>
        /\ emb.result # None => emb.result.dim = ModelSize
        /\ \A k \in DOMAIN emb.outcomes :
            emb.outcomes[k] = "short" =>
                \/ k < Len(emb.outcomes)
                \/ emb.pc = "run" /\ emb.attempt = k
                \/ emb.pc = "done" /\ emb.result = None
                    /\ k = AttemptLimit(emb.variant)

C10_Witness ==
    /\ emb.pc = "done"
    /\ Len(emb.outcomes) = 2
    /\ emb.outcomes[1] = "short"
    /\ emb.outcomes[2] = "ok"
    /\ emb.result.dim = ModelSize

\* MAX_TEXT_LENGTH of the function called
MaxTextLengthOf(variant) ==
    IF variant = "ultra_robust_embedding" THEN UltraMaxTextLength
    ELSE MaxTextLength

\* C21: a text longer than MAX_TEXT_LENGTH is cut before any request: the
\* prompt of every request of the call, retries included, is the prefix of
\* the text of length MAX_TEXT_LENGTH; no prompt is ever longer than
\* MAX_TEXT_LENGTH or than the text, and every request carries a prompt.
C21_TruncatedBeforeRequest ==
    emb.pc # "idle" =>
        /\ Len(emb.prompts) = Len(emb.outcomes)
        /\ \A k \in DOMAIN emb.prompts :
            /\ emb.prompts[k] <= MaxTextLengthOf(emb.variant)
            /\ emb.prompts[k] <= emb.text
            /\ emb.text > MaxTextLengthOf(emb.variant)
                => emb.prompts[k] = MaxTextLengthOf(emb.variant)

C21_Witness ==
    /\ emb.pc = "done"
    /\ emb.variant = "generate_embedding"
    /\ emb.text = 9000
    /\ emb.outcomes = <<"timeout", "empty", "ok">>
    /\ emb.prompts = <<MaxTextLength, MaxTextLength, MaxTextLength>>

\* C28: the embedder sleeps only before a next attempt: a call that has
\* returned has slept once after each attempt but its last, whatever made
\* the last attempt fail (timeout, HTTP error, empty response, wrong
\* dimension).
C28_SleepOnlyBeforeRetry ==
    emb.pc = "done" => Len(emb.sleeps) = Len(emb.outcomes) - 1

----------------------------------------------------------------------------
(* The batch orchestrators: run_improved_ingest of improved_ingest.py, on a
   CustomQdrantClient, and run_robust_ingest of robust_batch_ingest.py, on a
   QdrantDB.  A file is its index in os.walk order; a run keeps the requests
   it made in `embedded` and `upserted`. *)

BatchSizes == {1, 2}
MaxFilesInputs == {0, 1}
ErrorTypes == {"empty_file", "embedding_failed", "storage_failed", "io_error"}

RECURSIVE SeqOf(_)
SeqOf(n) == IF n = 0 THEN <<>> ELSE Append(SeqOf(n - 1), n)

Range(seq) == {seq[k] : k \in DOMAIN seq}

\* the payload sources of the rows of SELECT point FROM points, in rowid order
RECURSIVE SourcesOf(_, _)
SourcesOf(pts, ids) ==
    IF ids = {} THEN <<>>
    ELSE LET id == CHOOSE i \in ids : \A j \in ids : i <= j
         IN  <<pts[id].payload.source>> \o SourcesOf(pts, ids \ {id})

\* CustomQdrantClient.get_ingested_files: [] when the table cannot be read
GetIngestedFiles(pts, readable) ==
    IF readable THEN SourcesOf(pts, DOMAIN pts) ELSE <<>>

\* mutant: every candidate is taken as new
AllCandidates(all_files, ingested_files) == all_files

\* new_files = [f for f in all_files if f not in ingested_files]
NewFiles(all_files, ingested_files) ==
    LET IsNew(f) == f \notin Range(ingested_files)
    IN  SelectSeq(all_files, IsNew)

\* new_files[:max_files] if 0 < max_files < len(new_files)
Limited(new_files, max_files) ==
    IF max_files > 0 /\ max_files < Len(new_files)
    THEN SubSeq(new_files, 1, max_files) ELSE new_files

NoErrors == [e \in ErrorTypes |-> 0]

\* the final report, before it is emitted
NoSummary == [emitted |-> FALSE, processed |-> 0, successful |-> 0,
              failed |-> 0, error_types |-> NoErrors]

\* mutant: the checkpoint counts the stored files only
CheckpointOfStored(file_idx, total, successful, failed, file_path) ==
    [processed |-> successful, total |-> total, successful |-> successful,
     failed |-> failed, last_file |-> file_path]

\* the dict json.dump writes to ingest_checkpoint.json (timestamp left out)
Checkpoint(file_idx, total, successful, failed, file_path) ==
    [processed |-> file_idx, total |-> total, successful |-> successful,
     failed |-> failed, last_file |-> file_path]

\* ingest_checkpoint.json as the run finds it; all 0 when never written
CheckpointFile ==
    IF run.pc = "idle" THEN Checkpoint(0, 0, 0, 0, 0) ELSE run.checkpoint

\* a run that has returned, or raised, before the file loop
Returned(orchestrator, at_start, crashed) ==
    [pc |-> "done", orchestrator |-> orchestrator, crashed |-> crashed,
     at_start |-> at_start, ingested_files |-> <<>>, new_files |-> <<>>,
     batch_size |-> 1, max_files |-> 0,
     processed |-> 0, successful |-> 0, failed |-> 0,
     error_types |-> NoErrors, checkpoint |-> CheckpointFile,
     summary |-> NoSummary,
     abort |-> IF crashed THEN "AttributeError: get_ingested_files" ELSE "",
     embedded |-> <<>>, upserted |-> <<>>, pauses |-> <<>>]

\* the text of a file: files 1 and 2 hold the same text, as do 3 and 4; and
\* the vector ultra_robust_embedding returns for that text
FileText(f) == [content |-> (f + 1) \div 2]
FileEmbedding(f) == [dim |-> ModelSize, tag |-> (FileText(f).content % 2) + 1]

\* run_improved_ingest up to the batch loop
BeginImproved ==
    /\ impl = "Custom"
    /\ run.pc # "run"
    /\ \E accessible \in BOOLEAN,
          batch_size \in BatchSizes, max_files \in MaxFilesInputs :
        LET ingested_files == GetIngestedFiles(points, accessible)
            all_files == SeqOf(MaxFiles)
            new_files == NewFiles(all_files, ingested_files)
        IN  /\ CheckDatabase(accessible)
            /\ run' = IF new_files = <<>>
                      THEN Returned("run_improved_ingest", Range(ingested_files), FALSE)
                      ELSE [Returned("run_improved_ingest", Range(ingested_files), FALSE)
                            EXCEPT !.pc = "run",
                                   !.ingested_files = ingested_files,
                                   !.new_files = Limited(new_files, max_files),
                                   !.max_files = max_files,
                                   !.batch_size = batch_size]
    /\ UNCHANGED <<history, impl, existing_ids, last, hashSeed, ingest, emb>>

\* run_robust_ingest: QdrantDB(path), then get_ingested_files, a method
\* QdrantDB does not have: AttributeError ends the run
BeginRobust ==
    /\ impl = "QdrantDB"
    /\ run.pc # "run"
    /\ \E how \in Hows : InitializeClient(how)
    /\ run' = Returned("run_robust_ingest", {}, TRUE)
    /\ UNCHANGED <<history, impl, existing_ids, last, hashSeed, ingest, emb>>

\* mutant: a recovery sleep after every file, and a batch pause after every
\* full batch
PausesAlways(k, n, batch_size) ==
    <<"recovery_time">>
    \o (IF (k + 1) % batch_size = 0 THEN <<"batch_pause">> ELSE <<>>)

\* the sleeps after the file at position k (from 0) of n files
PausesAfter(k, n, batch_size) ==
    LET batch_idx == k \div batch_size
        i == k % batch_size
        batch_start == batch_idx * batch_size
        batch_end == IF batch_start + batch_size < n THEN batch_start + batch_size ELSE n
        total_batches == (n + batch_size - 1) \div batch_size
    IN  IF i < (batch_end - batch_start) - 1 THEN <<"recovery_time">>
        ELSE IF batch_idx < total_batches - 1 THEN <<"batch_pause">>
        ELSE <<>>

\* what a call of process_file meets: the file, the embedder, the database
Environments == {"unreadable", "empty", "no_embedding", "no_storage", "ok"}

\* mutant: the embedding is requested before the text is looked at, and
\* what came back is stored even when it is no embedding
ProcessFileUnordered(file_path, point_id, env) ==
    IF env = "unreadable"
    THEN [success |-> FALSE, error_type |-> "io_error", embedded |-> <<>>,
          upserted |-> <<>>, pts |-> points]
    ELSE IF env = "empty"
    THEN [success |-> FALSE, error_type |-> "empty_file",
          embedded |-> <<file_path>>, upserted |-> <<>>, pts |-> points]
    ELSE LET r == CStoreResult(FileText(file_path), FileEmbedding(file_path),
                               file_path, point_id, env # "no_storage")
         IN  [success |-> r.ret /\ env = "ok",
              error_type |-> IF env = "no_embedding" THEN "embedding_failed"
                             ELSE IF r.ret THEN "" ELSE "storage_failed",
              embedded |-> <<file_path>>, upserted |-> <<file_path>>,
              pts |-> r.pts]

\* process_file: (success, error_type) and the requests it made
ProcessFileResult(file_path, point_id, env) ==
    IF env = "unreadable"
    THEN [success |-> FALSE, error_type |-> "io_error", embedded |-> <<>>,
          upserted |-> <<>>, pts |-> points]
    ELSE IF env = "empty"
    THEN [success |-> FALSE, error_type |-> "empty_file", embedded |-> <<>>,
          upserted |-> <<>>, pts |-> points]
    ELSE IF env = "no_embedding"
    THEN [success |-> FALSE, error_type |-> "embedding_failed",
          embedded |-> <<file_path>>, upserted |-> <<>>, pts |-> points]
    ELSE LET r == CStoreResult(FileText(file_path), FileEmbedding(file_path),
                               file_path, point_id, env = "ok")
         IN  [success |-> r.ret,
              error_type |-> IF r.ret THEN "" ELSE "storage_failed",
              embedded |-> <<file_path>>, upserted |-> <<file_path>>,
              pts |-> r.pts]

\* one pass of the file loop: process_file, results, checkpoint, pauses;
\* after the last file, the final report
ProcessFile ==
    /\ run.pc = "run"
    /\ LET file_path == run.new_files[run.processed + 1]
           file_idx == run.processed + 1
           point_id == Len(run.ingested_files) + run.successful + 1
       IN \E env \in Environments :
            LET r == ProcessFileResult(file_path, point_id, env)
                successful == IF r.success THEN run.successful + 1 ELSE run.successful
                failed == IF r.success THEN run.failed ELSE run.failed + 1
                error_types == IF r.success THEN run.error_types
                               ELSE [run.error_types EXCEPT ![r.error_type] = @ + 1]
            IN  /\ points' = r.pts
                /\ run' = [run EXCEPT
                    !.successful = successful,
                    !.failed = failed,
                    !.ingested_files = IF r.success THEN Append(@, file_path) ELSE @,
                    !.error_types = error_types,
                    !.summary = IF file_idx < Len(run.new_files) THEN @
                                ELSE [emitted |-> TRUE,
                                      processed |-> Len(run.new_files),
                                      successful |-> successful,
                                      failed |-> failed,
                                      error_types |-> error_types],
                    !.checkpoint = Checkpoint(file_idx, Len(run.new_files),
                                              successful, failed, file_path),
                    !.processed = file_idx,
                    !.embedded = @ \o r.embedded,
                    !.upserted = @ \o r.upserted,
                    !.pauses = @ \o PausesAfter(run.processed, Len(run.new_files),
                                                run.batch_size),
                    !.pc = IF file_idx = Len(run.new_files) THEN "done" ELSE "run"]
    /\ UNCHANGED <<history, impl, client, coll, existing_ids, last, hashSeed, ingest, emb>>

\* process_file of robust_batch_ingest.py on a QdrantDB: the 768 numbers of
\* ultra_robust_embedding go to QdrantDB.store_embedding
RobustProcessFileResult(file_path, point_id, env) ==
    IF env = "unreadable"
    THEN [success |-> FALSE, error_type |-> "io_error", embedded |-> <<>>,
          upserted |-> <<>>, pts |-> points]
    ELSE IF env = "empty"
    THEN [success |-> FALSE, error_type |-> "empty_file", embedded |-> <<>>,
          upserted |-> <<>>, pts |-> points]
    ELSE IF env = "no_embedding"
    THEN [success |-> FALSE, error_type |-> "embedding_failed",
          embedded |-> <<file_path>>, upserted |-> <<>>, pts |-> points]
    ELSE LET r == QStoreResult(FileText(file_path), FileEmbedding(file_path),
                               file_path, point_id, env = "ok")
         IN  [success |-> r.ret,
              error_type |-> IF r.ret THEN "" ELSE "storage_failed",
              embedded |-> <<file_path>>, upserted |-> <<file_path>>,
              pts |-> r.pts]

\* a call of that process_file
RobustProcessFile ==
    /\ impl = "QdrantDB"
    /\ run.pc # "run"
    /\ \E file_path \in Files, point_id \in 1..MaxFiles, env \in Environments :
        LET r == RobustProcessFileResult(file_path, point_id, env) IN
        /\ points' = r.pts
        /\ last' = [op |-> "process_file", file |-> file_path, env |-> env,
                    vector |-> FileEmbedding(file_path),
                    success |-> r.success, error_type |-> r.error_type,
                    embedded |-> r.embedded, upserted |-> r.upserted,
                    raised |-> FALSE]
    /\ UNCHANGED <<history, impl, client, coll, existing_ids, hashSeed, ingest, emb, run>>

\* the process is killed between two files, or while it sleeps
Interrupt ==
    /\ run.pc = "run"
    /\ run' = [run EXCEPT !.pc = "interrupted"]
    /\ UNCHANGED <<history, impl, client, coll, points, existing_ids, last, hashSeed,
                   ingest, emb>>

\* the process is killed after store_embedding has committed and before the
\* results are updated and the checkpoint is written
InterruptAfterUpsert ==
    /\ run.pc = "run"
    /\ LET file_path == run.new_files[run.processed + 1]
           point_id == Len(run.ingested_files) + run.successful + 1
           r == ProcessFileResult(file_path, point_id, "ok")
       IN  /\ r.success
           /\ points' = r.pts
           /\ run' = [run EXCEPT !.pc = "interrupted",
                                 !.embedded = @ \o r.embedded,
                                 !.upserted = @ \o r.upserted]
    /\ UNCHANGED <<history, impl, client, coll, existing_ids, last, hashSeed, ingest, emb>>

InitBatch ==
    /\ impl \in {"Custom", "QdrantDB"}
    /\ client = "ok"
    /\ coll = "ready"
    /\ points = Empty
    /\ existing_ids = {}
    /\ last = [op |-> "open"]
    /\ hashSeed = 1
    /\ ingest = Idle
    /\ emb = Idle
    /\ run = Idle
    /\ history = NoHistory

NextBatch ==
    \/ BeginImproved
    \/ BeginRobust
    \/ ProcessFile
    \/ Interrupt
    \/ InterruptAfterUpsert
    \/ RobustProcessFile

SpecBatch == InitBatch /\ [][NextBatch]_vars

\* C4: a candidate file whose source get_ingested_files returned at the start
\* of a run is never embedded or upserted in that run; when every candidate
\* was returned, the run ends with no embed request and no upsert, and the
\* points are as they were.
C4_AtMostOncePerSource ==
    /\ run.pc # "idle" =>
        /\ \A f \in Range(run.embedded) \cup Range(run.upserted) :
                f \notin run.at_start
        /\ (\A f \in Files : f \in run.at_start)
            => (run.pc = "done" /\ run.embedded = <<>> /\ run.upserted = <<>>)

C4_Witness ==
    /\ run.pc = "done"
    /\ run.orchestrator = "run_improved_ingest"
    /\ run.at_start = Files
    /\ run.embedded = <<>>
    /\ run.upserted = <<>>
    /\ Count = MaxFiles

----------------------------------------------------------------------------
(* chunk_text of modules/chat/utils.py, and the same loop inlined in
   ChatUI.ingest_documents.  A text is known by its number of words; a chunk
   by the positions [from, to) of the words it joins. *)

MaxWords == 12      \* words of a text: 0..MaxWords, and hundreds

WordCounts == 0..MaxWords \cup {100 * k : k \in 0..(MaxWords \div 2)}
ChunkSizeArgs == {1, 2, 4, ChunkSize}
OverlapArgs == {0, 1, 3, 4, 5, Overlap}

\* words[i:i + chunk_size] of n words
Window(i, chunk_size, n) ==
    [from |-> i, to |-> IF i + chunk_size < n THEN i + chunk_size ELSE n]

\* mutant: the start advances by chunk_size + overlap
ChunkTextSparse(n, chunk_size, overlap) ==
    LET step == chunk_size + overlap
        count == Cardinality({i \in 0..(n - 1) : i % step = 0})
    IN  [ret |-> [k \in 1..count |-> Window((k - 1) * step, chunk_size, n)],
         raised |-> FALSE]

\* chunk_text(text, chunk_size, overlap): range() raises ValueError on a step
\* of 0 and is empty on a negative step
ChunkTextResult(n, chunk_size, overlap) ==
    LET step == chunk_size - overlap IN
    IF step = 0 THEN [ret |-> <<>>, raised |-> TRUE]
    ELSE IF step < 0 THEN [ret |-> <<>>, raised |-> FALSE]
    ELSE LET count == Cardinality(ChunkStarts(n, chunk_size, overlap))
         IN  [ret |-> [k \in 1..count |-> Window((k - 1) * step, chunk_size, n)],
              raised |-> FALSE]

ChunkCall(op, n, chunk_size, overlap, r) ==
    [op |-> op, words |-> n, chunk_size |-> chunk_size,
     overlap |-> overlap, ret |-> r.ret, raised |-> r.raised]

\* a call of chunk_text
CallChunkText ==
    /\ \E n \in WordCounts, chunk_size \in ChunkSizeArgs, overlap \in OverlapArgs :
        last' = ChunkCall("chunk_text", n, chunk_size, overlap,
                          ChunkTextResult(n, chunk_size, overlap))
    /\ UNCHANGED <<history, impl, client, coll, points, existing_ids, hashSeed, ingest,
                   emb, run>>

\* the loop of ingest_documents: chunk_size = 300, overlap = 50
SplitIntoChunks ==
    /\ \E n \in WordCounts :
        last' = ChunkCall("chunks", n, ChunkSize, Overlap,
                          ChunkTextResult(n, ChunkSize, Overlap))
    /\ UNCHANGED <<history, impl, client, coll, points, existing_ids, hashSeed, ingest,
                   emb, run>>

InitChunk ==
    /\ impl = "QdrantDB"
    /\ client = "ok"
    /\ coll = "ready"
    /\ points = Empty
    /\ existing_ids = {}
    /\ last = [op |-> "open"]
    /\ hashSeed = 1
    /\ ingest = Idle
    /\ emb = Idle
    /\ run = Idle
    /\ history = NoHistory

NextChunk ==
    \/ CallChunkText
    \/ SplitIntoChunks

SpecChunk == InitChunk /\ [][NextChunk]_vars

\* ceil(a / b) for b > 0
Ceil(a, b) == -((-a) \div b)

Abs(x) == IF x < 0 THEN -x ELSE x

ValidArgs ==
    /\ last.op \in {"chunk_text", "chunks"}
    /\ 0 <= last.overlap /\ last.overlap < last.chunk_size

\* every word is in a chunk, the chunks start in increasing order and each
\* is a run of consecutive words
Covers(chunks, n) ==
    /\ \A w \in 0..(n - 1) : \E k \in DOMAIN chunks :
            chunks[k].from <= w /\ w < chunks[k].to
    /\ \A k \in DOMAIN chunks : chunks[k].from < chunks[k].to /\ chunks[k].to <= n
    /\ \A k \in DOMAIN chunks : k > 1 => chunks[k - 1].from < chunks[k].from

C29_EveryChunkAddsWords ==
    ValidArgs =>
        \A k \in DOMAIN last.ret :
            /\ last.ret[k].to - last.ret[k].from <= last.chunk_size
            /\ k > 1 => last.ret[k].to > last.ret[k - 1].to

\* C12: chunk_text called with overlap >= chunk_size fails fast: the call
\* raises, it does not return a chunk sequence (an empty one included).
C12_OverlapFailsFast ==
    (last.op = "chunk_text" /\ last.overlap >= last.chunk_size) => last.raised

\* the sources of the points of the store
StoredSources(pts) == {pts[id].payload.source : id \in DOMAIN pts}

\* C13: when run_improved_ingest is invoked again after an interrupted run,
\* the files it takes are candidates whose source is not stored, all of them
\* unless the operator gave a max_files limit; the checkpoint file the
\* interrupted run left plays no part.
C13_ResumeFromStore ==
    [][(run.pc = "interrupted" /\ impl = "Custom" /\ run'.pc # "interrupted")
       => /\ Range(run'.new_files) \subseteq Files \ StoredSources(points)
          /\ run'.max_files = 0
                => Range(run'.new_files) = Files \ StoredSources(points)]_vars

\* C14: in ingest_documents a chunk that cannot be embedded or stored does
\* not end its file: the next chunk of the file is processed; and a file
\* whose only failure is a chunk skipped because it could not be embedded is
\* counted as succeeded.
C14_ChunkFailureKeepsFile ==
    [][(ingest.pc = "run" /\ last'.op \in {"embed_failed", "store"})
       => /\ ingest.chunk + 1 < NumChunks(ingest.file)
                => (ingest'.pc = "run" /\ ingest'.file = ingest.file
                    /\ ingest'.chunk = ingest.chunk + 1)
          /\ (/\ ingest.chunk + 1 = NumChunks(ingest.file)
              /\ last'.op = "embed_failed"
              /\ ingest.chunk_failed = 0)
                => (ingest'.success_count = ingest.success_count + 1
                    /\ ingest'.failed_count = ingest.failed_count)]_vars

RECURSIVE SumOver(_, _)
SumOver(counts, keys) ==
    IF keys = {} THEN 0
    ELSE LET k == CHOOSE x \in keys : TRUE
         IN  counts[k] + SumOver(counts, keys \ {k})

\* C15: a batch run that had files to process ends with a final summary, also
\* when every file failed; in it successful + failed is the number of files
\* processed and the counts of the reasons sum to failed.
C15_AlwaysSummary ==
    (run.pc = "done" /\ Files \ run.at_start # {})
    => /\ run.summary.emitted
       /\ run.summary.successful + run.summary.failed = run.summary.processed
       /\ SumOver(run.summary.error_types, ErrorTypes) = run.summary.failed

\* C16: every pass of the file loop, success or failure, overwrites the
\* checkpoint; the checkpoint written has processed = successful + failed,
\* processed <= total, last_file the file just processed, and processed one
\* more than the write before it in the run.
C16_CheckpointEachFile ==
    [][(run.pc = "run" /\ run'.pc \in {"run", "done"})
       => LET c == run'.checkpoint IN
          /\ c.processed = c.successful + c.failed
          /\ c.processed <= c.total
          /\ c.total = Len(run.new_files)
          /\ c.last_file = run.new_files[run.processed + 1]
          /\ c.processed = run.processed + 1
          /\ run.processed > 0 => c.processed = run.checkpoint.processed + 1]_vars

C16_Witness ==
    /\ run.pc = "done"
    /\ run.checkpoint.processed = 2
    /\ run.checkpoint.total = 2
    /\ run.checkpoint.successful = 1
    /\ run.checkpoint.failed = 1
    /\ run.checkpoint.last_file = 2

NoAnswer == "No relevant information found in the documents."
ErrorAnswers == {"Error: Could not process your question",
                 "An error occurred while processing your question."}

\* C17: the response to a question whose retrieval failed with an error
\* (client not initialized, dimension mismatch, exception in search) differs
\* from the response given when the search found no match.
C17_ErrorIsNotNoAnswer ==
    (last.op = "respond" /\ last.search_error) => last.ret # NoAnswer

\* C18: when the question cannot be embedded, generate_response returns an
\* error message at once: no search, no generation, no context.
C18_EmbeddingFailureFailsFast ==
    (last.op = "respond" /\ last.vector = None)
    => /\ last.ret \in ErrorAnswers
       /\ ~last.searched
       /\ ~last.generated
       /\ last.context = <<>>

C18_Witness ==
    /\ last.op = "respond"
    /\ last.vector = None
    /\ last.ret = "Error: Could not process your question"
    /\ client = "ok" /\ coll = "ready" /\ Count > 0

\* C19: a collection whose dimension differs from the dimension of the
\* embedding model ends the run at once with a message naming the
\* misconfiguration: the run of run_robust_ingest aborts with that message,
\* and no call of process_file reports the mismatch as a storage failure of
\* one file.
C19_DimensionMisconfigAborts ==
    CollectionSize # ModelSize =>
        /\ (run.pc # "idle" /\ run.orchestrator = "run_robust_ingest")
            => run.abort = "dimension mismatch"
        /\ (last.op = "process_file" /\ last.env = "ok" /\ client = "ok"
            /\ coll = "ready")
            => last.error_type # "storage_failed"

\* C20: store_embedding, search, clear_collection and get_collection_stats
\* never raise to the caller: with no client, or with the collection gone,
\* they return False, [], an error dict, or nothing, and each of them can be
\* called again afterwards.
C20_StoreNeverRaises ==
    impl \in {"QdrantDB", "Custom"} =>
        /\ last.op \in {"store", "search", "clear"} => ~last.raised
        /\ last.op = "stats" => ~last.ret.raised
        /\ (last.op = "store" /\ (coll # "ready" \/ (impl = "QdrantDB" /\ client # "ok")))
            => last.ret = FALSE
        /\ (last.op = "search" /\ (coll # "ready" \/ client # "ok"))
            => last.ret = <<>>
        /\ (last.op = "stats" /\ (coll # "ready" \/ client # "ok"))
            => last.ret.error # ""
        /\ ENABLED StoreEmbedding
        /\ impl = "QdrantDB" =>
            (ENABLED Search /\ ENABLED ClearCollection /\ ENABLED GetCollectionStats)

C20_Witness ==
    /\ impl = "QdrantDB"
    /\ client = "ok" /\ coll = "missing"
    /\ last.op = "store"
    /\ last.vector.dim = CollectionSize
    /\ last.ret = FALSE
    /\ ~last.raised

\* the pairs of different candidate files that hold the same text
SameTextPairs ==
    {pair \in Files \X Files :
        pair[1] # pair[2] /\ FileText(pair[1]) = FileText(pair[2])}

C25_NoOverwrite ==
    [][(run.pc = "run" /\ points' # points) =>
            /\ \A id \in DOMAIN points :
                points'[id].payload.source = points[id].payload.source
            /\ Cardinality(DOMAIN points') = Cardinality(DOMAIN points) + 1]_vars

\* the failures of one kind a step of the file loop has added to the results
Counted(error_type) == run'.error_types[error_type] - run.error_types[error_type]

\* C27: process_file reads, then embeds, then upserts.  A blank file is
\* counted as empty_file and no embedding is requested for it; a file whose
\* embedding failed is counted as embedding_failed and no upsert is made for
\* it; a file whose upsert failed after its embedding is counted as
\* storage_failed and the table is left as it was; a file is upserted only
\* once it has been embedded.  The same holds of the process_file that
\* writes to a QdrantDB.
C27_ReadEmbedUpsert ==
    /\ [][(run.pc = "run" /\ run'.processed = run.processed + 1) =>
            LET file_path == run.new_files[run.processed + 1] IN
            /\ Counted("empty_file") = 1 =>
                (run'.embedded = run.embedded /\ run'.upserted = run.upserted
                 /\ points' = points)
            /\ Counted("embedding_failed") = 1 =>
                (run'.embedded = Append(run.embedded, file_path)
                 /\ run'.upserted = run.upserted /\ points' = points)
            /\ Counted("storage_failed") = 1 =>
                (run'.embedded = Append(run.embedded, file_path)
                 /\ run'.upserted = Append(run.upserted, file_path)
                 /\ points' = points)
            /\ run'.successful = run.successful + 1 =>
                (run'.embedded = Append(run.embedded, file_path)
                 /\ run'.upserted = Append(run.upserted, file_path))
            /\ run'.upserted # run.upserted => run'.embedded # run.embedded]_vars
    /\ [](last.op = "process_file" =>
            /\ last.error_type = "empty_file" =>
                (last.embedded = <<>> /\ last.upserted = <<>>)
            /\ last.error_type = "embedding_failed" =>
                (last.embedded = <<last.file>> /\ last.upserted = <<>>)
            /\ last.error_type = "storage_failed" =>
                (last.embedded = <<last.file>> /\ last.upserted = <<last.file>>)
            /\ last.upserted # <<>> => last.embedded # <<>>)

C27_Witness ==
    /\ run.pc = "done"
    /\ run.orchestrator = "run_improved_ingest"
    /\ run.processed = 2
    /\ run.error_types["embedding_failed"] = 1
    /\ run.error_types["storage_failed"] = 1
    /\ run.embedded = <<1, 2>>
    /\ run.upserted = <<2>>
    /\ points = Empty

\* the pause the throttling rule puts after the file of index idx (from 1)
\* of n files
PauseDue(idx, n, batch_size) ==
    IF idx = n THEN <<>>
    ELSE IF idx % batch_size = 0 THEN <<"batch_pause">>
    ELSE <<"recovery_time">>

\* C30: the files of the (max_files-limited) list are processed one by one in
\* list order, each once; after a file that is followed by a file of the same
\* batch there is one recovery sleep, after the last file of a batch that is
\* followed by another batch one batch pause and no recovery sleep, and after
\* the last file of the run no sleep.
C30_ThrottlingOrder ==
    /\ [][(run.pc = "run" /\ run'.processed # run.processed) =>
            LET idx == run'.processed
                n == Len(run.new_files)
            IN  /\ idx = run.processed + 1
                /\ run'.new_files = run.new_files
                /\ run'.checkpoint.last_file = run.new_files[idx]
                /\ run'.pauses = run.pauses \o PauseDue(idx, n, run.batch_size)
                /\ run'.pc = "done" <=> idx = n]_vars
    /\ [](run.pc \in {"run", "interrupted"} =>
            /\ run.processed < Len(run.new_files)
            /\ \A i, j \in DOMAIN run.new_files :
                i < j => run.new_files[i] < run.new_files[j]
            /\ (run.max_files > 0 => Len(run.new_files) <= run.max_files))

C30_Witness ==
    /\ run.pc = "done"
    /\ run.orchestrator = "run_improved_ingest"
    /\ run.batch_size = 1
    /\ run.new_files = <<1, 2>>
    /\ run.processed = 2
    /\ run.checkpoint.last_file = 2
    /\ run.pauses = <<"batch_pause">>

----------------------------------------------------------------------------
(* The context handed to the generator: ContextProcessor.format_context of
   modules/chat/context_processor.py, on strings written as sequences of
   characters, and the slice ChatUI.generate_response takes of the joined
   texts, on lengths. *)

MaxChars == 3           \* characters of one context text: 0..MaxChars
MaxTexts == 2           \* context texts of one call: 0..MaxTexts
MaxLength == 6          \* max_length arguments tried: 1..MaxLength

PromptContextLength == 1000     \* ' '.join(context_texts)[:1000]

Chars == {"a", " "}
ContextStrings == UNION {[1..n -> Chars] : n \in 0..MaxChars}
ContextLists == UNION {[1..n -> ContextStrings] : n \in 0..MaxTexts}
ContextLengths == {0, 400, 700}
ContextLengthLists == UNION {[1..n -> ContextLengths] : n \in 1..ContextLimit}

Separator == <<"\n", "-", "-", "-", "\n">>      \* "\n---\n"
Ellipsis == <<".", ".", ".">>                   \* '...'

\* sep.join(texts)
RECURSIVE Join(_, _)
Join(sep, texts) ==
    IF texts = <<>> THEN <<>>
    ELSE IF Len(texts) = 1 THEN texts[1]
    ELSE texts[1] \o sep \o Join(sep, Tail(texts))

\* s.rsplit(' ', 1)[0]: s up to its last space, all of s when it has none
RSplitHead(s) ==
    LET spaces == {i \in DOMAIN s : s[i] = " "}
    IN  IF spaces = {} THEN s
        ELSE LET p == CHOOSE i \in spaces : \A j \in spaces : j <= i
             IN  SubSeq(s, 1, p - 1)

\* ContextProcessor.format_context(context_texts, max_length)
FormatContextResult(context_texts, max_length) ==
    LET formatted == Join(Separator, context_texts)
    IN  IF Len(formatted) > max_length
        THEN RSplitHead(SubSeq(formatted, 1, max_length)) \o Ellipsis
        ELSE formatted

\* len(' '.join(context_texts)), from the lengths of the texts
RECURSIVE JoinedLength(_)
JoinedLength(lengths) ==
    IF lengths = <<>> THEN 0
    ELSE IF Len(lengths) = 1 THEN lengths[1]
    ELSE lengths[1] + 1 + JoinedLength(Tail(lengths))

\* len(' '.join(context_texts)[:1000]) in ChatUI.generate_response
PromptContextResult(lengths) ==
    IF JoinedLength(lengths) > PromptContextLength THEN PromptContextLength
    ELSE JoinedLength(lengths)

FormatContext ==
    /\ \E context_texts \in ContextLists, max_length \in 1..MaxLength :
        last' = [op |-> "format_context", context_texts |-> context_texts,
                 max_length |-> max_length,
                 ret |-> FormatContextResult(context_texts, max_length)]
    /\ UNCHANGED <<history, impl, client, coll, points, existing_ids, hashSeed,
                   ingest, emb, run>>

PromptContext ==
    /\ \E lengths \in ContextLengthLists :
        last' = [op |-> "prompt_context", lengths |-> lengths,
                 ret |-> PromptContextResult(lengths)]
    /\ UNCHANGED <<history, impl, client, coll, points, existing_ids, hashSeed,
                   ingest, emb, run>>

InitContext ==
    /\ impl = "QdrantDB"
    /\ client = "ok"
    /\ coll = "ready"
    /\ points = Empty
    /\ existing_ids = {}
    /\ last = [op |-> "open"]
    /\ hashSeed = 1
    /\ ingest = Idle
    /\ emb = Idle
    /\ run = Idle
    /\ history = NoHistory

NextContext ==
    \/ FormatContext
    \/ PromptContext

SpecContext == InitContext /\ [][NextContext]_vars

\* C22: the context handed to the generator is cut to a bounded length: for
\* every list of context texts, format_context(context_texts, max_length)
\* returns a string of at most max_length characters.
C22_ContextBounded ==
    last.op = "format_context" => Len(last.ret) <= last.max_length

----------------------------------------------------------------------------
(* ChatHistory of modules/chat/chat_history.py.  A message is the dict the
   code appends, without its timestamp; its field `context` is the context
   argument of the call that added it, which the code keeps in chat_contexts
   only.  No context, None or [], is <<>>. *)

MaxHistory == 2         \* max_history arguments tried: 1..MaxHistory

Roles == {"user", "assistant"}
Contents == {"m1", "m2"}
Contexts == {<<>>, <<"c1">>, <<"c2">>}

\* dict.pop(key, None)
Pop(dict, key) == [k \in DOMAIN dict \ {key} |-> dict[k]]

\* ChatHistory.add_message: the object after the call
AddMessageResult(h, role, content, context) ==
    LET message_id == Len(h.messages)
        message == [id |-> message_id, role |-> role, content |-> content,
                    context |-> context]
        messages == Append(h.messages, message)
        chat_contexts == IF context # <<>>
                         THEN [k \in DOMAIN h.chat_contexts \cup {message_id} |->
                                 IF k = message_id THEN context
                                 ELSE h.chat_contexts[k]]
                         ELSE h.chat_contexts
    IN  IF Len(messages) > h.max_history
        THEN [h EXCEPT !.messages = Tail(messages),
                       !.chat_contexts = Pop(chat_contexts, messages[1].id)]
        ELSE [h EXCEPT !.messages = messages,
                       !.chat_contexts = chat_contexts]

\* self.messages[-num_messages:]
Recent(messages, num_messages) ==
    IF Len(messages) <= num_messages THEN messages
    ELSE SubSeq(messages, Len(messages) - num_messages + 1, Len(messages))

\* ChatHistory.get_recent_context: per recent message its role and content,
\* and the context found under its id (<<>> when there is none)
GetRecentContextResult(h, num_messages) ==
    LET recent == Recent(h.messages, num_messages)
    IN  [k \in DOMAIN recent |->
            [role |-> recent[k].role, content |-> recent[k].content,
             context |-> IF recent[k].id \in DOMAIN h.chat_contexts
                         THEN h.chat_contexts[recent[k].id] ELSE <<>>]]

AddMessage ==
    /\ history.max_history > 0
    /\ \E role \in Roles, content \in Contents, context \in Contexts :
        /\ history' = AddMessageResult(history, role, content, context)
        /\ last' = [op |-> "add_message", role |-> role, content |-> content,
                    context |-> context]
    /\ UNCHANGED <<impl, client, coll, points, existing_ids, hashSeed, ingest,
                   emb, run>>

GetRecentContext ==
    /\ history.max_history > 0
    /\ \E num_messages \in 1..MaxHistory :
        last' = [op |-> "get_recent_context", num_messages |-> num_messages,
                 ret |-> GetRecentContextResult(history, num_messages)]
    /\ UNCHANGED <<history, impl, client, coll, points, existing_ids, hashSeed,
                   ingest, emb, run>>

ClearHistory ==
    /\ history.max_history > 0
    /\ history' = [history EXCEPT !.messages = <<>>, !.chat_contexts = <<>>]
    /\ last' = [op |-> "clear_history"]
    /\ UNCHANGED <<impl, client, coll, points, existing_ids, hashSeed, ingest,
                   emb, run>>

InitHistory ==
    /\ impl = "QdrantDB"
    /\ client = "ok"
    /\ coll = "ready"
    /\ points = Empty
    /\ existing_ids = {}
    /\ last = [op |-> "open"]
    /\ hashSeed = 1
    /\ ingest = Idle
    /\ emb = Idle
    /\ run = Idle
    /\ \E max_history \in 1..MaxHistory :      \* ChatHistory(max_history)
        history = [max_history |-> max_history, messages |-> <<>>,
                   chat_contexts |-> <<>>]

NextHistory ==
    \/ AddMessage
    \/ GetRecentContext
    \/ ClearHistory

SpecHistory == InitHistory /\ [][NextHistory]_vars

\* C26: after any sequence of add_message calls a ChatHistory retains at most
\* max_history messages, their ids are pairwise distinct, and every retained
\* message that was added with a context has exactly that context under its
\* id in chat_contexts.
C26_HistoryConsistent ==
    LET messages == history.messages IN
    /\ Len(messages) <= history.max_history
    /\ \A i, j \in DOMAIN messages : i # j => messages[i].id # messages[j].id
    /\ \A i \in DOMAIN messages :
        messages[i].context # <<>> =>
            /\ messages[i].id \in DOMAIN history.chat_contexts
            /\ history.chat_contexts[messages[i].id] = messages[i].context

----------------------------------------------------------------------------
\* C24: get_collection_stats reports "green" exactly when the table can be
\* read and holds at least one point, "yellow" exactly when it can be read
\* and holds none, and "red" exactly when it cannot be read.
C24_StatusReflectsStore ==
    last.op = "status" =>
        /\ last.status = "green" <=> (last.readable /\ last.count >= 1)
        /\ last.status = "yellow" <=> (last.readable /\ last.count = 0)
        /\ last.status = "red" <=> ~last.readable

----------------------------------------------------------------------------
(* Claims about the store, checked under SpecStore *)

\* C2: stored points are deleted only by an explicit clear(): opening the
\* store leaves every stored point in place, and no operation other than
\* clear ever reduces the point count.
C2_OnlyClearDeletes ==
    [][last'.op # "clear" =>
        /\ Cardinality(DOMAIN points') >= Cardinality(DOMAIN points)
        /\ (last'.op = "open" => points' = points)]_vars

\* C3: QdrantDB.store_embedding with a vector whose length differs from the
\* collection's dimension returns False and leaves every stored point (and so
\* the point count) unchanged.
C3_MismatchRejected ==
    [][(impl = "QdrantDB" /\ last'.op = "store" /\ last'.vector.dim # CollectionSize) =>
        (last'.ret = FALSE /\ points' = points)]_vars

C3_Witness ==
    /\ impl = "QdrantDB" /\ client = "ok" /\ coll = "ready"
    /\ last.op = "store" /\ last.vector.dim = ModelSize /\ last.ret = FALSE
    /\ Count = 2

\* C6: a successful store_embedding of a point whose id is already stored
\* overwrites that point in place: the point count is unchanged and the point
\* under that id carries the new vector and payload (in every store class).
C6_UpsertOverwrites ==
    [][(last'.op = "store" /\ last'.ret = TRUE /\ last'.id \in DOMAIN points) =>
        /\ Cardinality(DOMAIN points') = Cardinality(DOMAIN points)
        /\ points'[last'.id].vector = last'.vector
        /\ points'[last'.id].payload = last'.payload]_vars

Descending(results) ==
    \A k \in 1..(Len(results) - 1) : results[k].score >= results[k + 1].score

AllAtLeast(results, threshold) ==
    \A k \in 1..Len(results) : results[k].score >= threshold

\* C7: search returns at most `limit` matches, in descending score order,
\* each with score at or above score_threshold; and what generate_response
\* and process_search_results use as context never scores below 0.7.
C7_SearchBounded ==
    /\ last.op = "search" =>
        /\ Len(last.ret) <= last.limit
        /\ Descending(last.ret)
        /\ AllAtLeast(last.ret, last.score_threshold)
    /\ last.op = "respond" =>
        /\ Len(last.context) <= ContextLimit
        /\ Descending(last.context)
        /\ AllAtLeast(last.context, RelevanceThreshold)
    /\ last.op = "context" => AllAtLeast(last.context, RelevanceThreshold)

C7_Witness ==
    /\ last.op = "search" /\ last.score_threshold = RelevanceThreshold
    /\ Len(last.ret) = last.limit /\ Count > last.limit
    /\ \E i \in DOMAIN points :
        Similarity(last.vector, points[i].vector) < RelevanceThreshold

\* C8: a search right after clear_collection, on the empty collection and
\* with a query vector of the collection's dimension, returns the empty
\* sequence and raises nothing.
C8_EmptySearch ==
    (impl = "QdrantDB" /\ last.op = "search" /\ last.after_clear /\ Count = 0
        /\ last.vector.dim = CollectionSize)
    => (last.ret = <<>> /\ ~last.raised)

C8_Witness ==
    /\ impl = "QdrantDB" /\ client = "ok" /\ coll = "ready"
    /\ last.op = "search" /\ last.after_clear /\ Count = 0
    /\ last.vector.dim = CollectionSize /\ last.ret = <<>>

====
